---- MODULE Spec2Model ----
(***************************************************************************)
(* Model of sph2d-rs: the Morton-ordered uniform grid used for neighbour   *)
(* search (sph/neighborhood_search.rs) and the particle stores with their  *)
(* density / force / integration passes (hydroparticles.rs,                *)
(* sph/fluidparticleworld.rs).                                             *)
(*                                                                         *)
(* Reals are modelled by exact integer arithmetic on a fixed-point grid:   *)
(* floating point rounding is abstracted away, every other step of the     *)
(* code (casts, truncation, saturation, masking) is modelled as executed.  *)
(***************************************************************************)
EXTENDS Integers, Sequences, FiniteSets, TLC

VARIABLES
    positions,      \* update(): the `positions` slice of the last call
    particles,      \* NeighborhoodSearch::particles  (Vec<Particle>)
    cells,          \* NeighborhoodSearch::cells      (Vec<Cell>)
    pc,             \* control state of the index: idle / traversal position / done / panic
    lastcall,       \* the call that produced the current state (history)
    driver,         \* what the caller has done so far: points appended, moved, index updated
    qpos,           \* foreach_potential_neighbor: the query `position`
    cell_arrayidx,  \* foreach_potential_neighbor: cursor into cells (0-based)
    num_misses,     \* foreach_potential_neighbor: consecutive misses of this skip loop
    first_particle, \* foreach_potential_neighbor: first particle of the current run
    visited,        \* the ids handed to the visitor f, in call order
    jumps,          \* cursor positions (from, to) of every BIGMIN jump of this query
    velocities,     \* HydroParticles.velocities / Particles.velocities
    accellerations, \* HydroParticles.accellerations / Particles.accellerations
    densities,      \* HydroParticles.densities / Particles.densities
    boundary_particles, \* HydroParticles.boundary_particles / Particles.boundary_particles
    num_steps,      \* number of simulation passes run so far
    camera,         \* Camera: screen, pixel_per_world_unit, position
    world_pos,      \* world_to_screen_coords: the argument world_pos
    screen_pos,     \* world_to_screen_coords: the value returned, or the panic
    table,          \* find_next_cell: a cell table of its own (self.cells)
    target,         \* find_next_cell: the argument cidx
    found,          \* find_next_cell: the value returned and the indices read
    workers         \* update_densities: where each parallel worker stands

vars == <<positions, particles, cells, pc, lastcall, driver, qpos, cell_arrayidx,
          num_misses, first_particle, visited, jumps,
          velocities, accellerations, densities, boundary_particles, num_steps,
          camera, world_pos, screen_pos, table, target, found, workers>>

\* the particle store's fields besides positions
storevars == <<velocities, accellerations, densities, boundary_particles, num_steps>>

\* the camera's variables, those of the cell search on its own, and the workers
cameravars == <<camera, world_pos, screen_pos>>
findvars == <<table, target, found>>
auxvars == <<cameravars, findvars, workers>>

\* no conversion has been asked of the camera
CameraIdle ==
    /\ camera = [screen |-> [x |-> 0, y |-> 0, w |-> 0, h |-> 0],
                 pixel_per_world_unit |-> 0, position |-> <<0, 0>>]
    /\ world_pos = <<0, 0>>
    /\ screen_pos = [returned |-> FALSE, panicked |-> FALSE, value |-> <<0, 0>>]

\* no search has been asked of a table of its own
FindIdle ==
    /\ table = <<>>
    /\ target = 0
    /\ found = [returned |-> FALSE, index |-> 0]


-----------------------------------------------------------------------------
(* Bounds of the model *)

\* bits per cell coordinate of the Morton code (the program uses 16)
Bits == 3
\* fluid particles the store may hold
MaxParticles == 3
\* boundary particles the store may hold
MaxBoundary == 2
\* simulation passes per run
MaxSteps == 2
\* longest cell table searched on its own
MaxCells == 40
\* most particles of a store whose density pass is run by interleaved workers
MaxWorkers == 2
\* parallel density passes per run
MaxPasses == 1
\* single points the driver may append besides lattice blocks
MaxFree == 2
\* query points range over the square of this half-width around the grid centre
QuerySpan == 2

-----------------------------------------------------------------------------
(* Arithmetic helpers *)

RECURSIVE Pow2(_)
Pow2(n) == IF n = 0 THEN 1 ELSE 2 * Pow2(n - 1)

SetMin(S) == CHOOSE m \in S : \A o \in S : m <= o

Range(s) == {s[i] : i \in DOMAIN s}

\* the value of F at the value of a, with a evaluated once
With(a, F(_)) == CHOOSE r \in {F(v) : v \in {a}} : TRUE

RECURSIVE Pow10(_)
Pow10(n) == IF n = 0 THEN 1 ELSE 10 * Pow10(n - 1)

-----------------------------------------------------------------------------
(* units::Real.  A Real is an integer count of millionths (six decimal     *)
(* digits behind the point), or NonFinite for a NaN or an infinity.        *)
(* Products and quotients are truncated towards zero to that resolution;   *)
(* they are computed piecewise so that no intermediate value leaves the    *)
(* 32-bit integer range of the model checker.                              *)

One == 1000 * 1000

\* the result of 0/0, x/0 and of every operation on such a value
NonFinite == 0 - 2147483647

IsFinite(a) == a # NonFinite

Abs(v) == IF v < 0 THEN 0 - v ELSE v

Sign(v) == IF v < 0 THEN 0 - 1 ELSE 1

\* the literal n/d, for small n
R(n, d) == (n * One) \div d

Neg(a) == IF IsFinite(a) THEN 0 - a ELSE NonFinite

Add(a, b) == IF IsFinite(a) /\ IsFinite(b) THEN a + b ELSE NonFinite

Sub(a, b) == IF IsFinite(a) /\ IsFinite(b) THEN a - b ELSE NonFinite

\* |a| * |b| / One on base-1000 digits a = a2 a1 a0, b = b2 b1 b0
MulAbs(a, b) ==
    LET a0 == a % 1000
        a1 == (a \div 1000) % 1000
        a2 == a \div One
        b0 == b % 1000
        b1 == (b \div 1000) % 1000
        b2 == b \div One
    IN a2 * b2 * One
       + (a2 * b1 + a1 * b2) * 1000
       + (a2 * b0 + a1 * b1 + a0 * b2)
       + ((a1 * b0 + a0 * b1) * 1000 + a0 * b0) \div One

\* the part of |a| * |b| that MulAbs cuts off, in units of One * One
MulRem(a, b) ==
    LET a0 == a % 1000
        a1 == (a \div 1000) % 1000
        b0 == b % 1000
        b1 == (b \div 1000) % 1000
    IN ((a1 * b0 + a0 * b1) * 1000 + a0 * b0) % One

Mul(a, b) ==
    IF IsFinite(a) /\ IsFinite(b) THEN Sign(a) * Sign(b) * MulAbs(Abs(a), Abs(b))
    ELSE NonFinite

\* n more decimal digits of the quotient rem / b, for rem < b; a remainder
\* too large to be shifted drops its last digit together with the divisor
RECURSIVE DivDigits(_, _, _)
DivDigits(rem, b, n) ==
    IF n = 0 THEN 0
    ELSE IF rem > 200000000 THEN DivDigits(rem \div 10, b \div 10, n)
    ELSE ((rem * 10) \div b) * Pow10(n - 1) + DivDigits((rem * 10) % b, b, n - 1)

DivAbs(a, b) == (a \div b) * One + DivDigits(a % b, b, 6)

Div(a, b) ==
    IF IsFinite(a) /\ IsFinite(b) /\ b # 0 THEN Sign(a) * Sign(b) * DivAbs(Abs(a), Abs(b))
    ELSE NonFinite

\* the largest integer y in lo..hi with y * y <= n
RECURSIVE IntSqrtSearch(_, _, _)
IntSqrtSearch(n, lo, hi) ==
    IF lo >= hi THEN lo
    ELSE LET mid == (lo + hi + 1) \div 2
         IN IF mid * mid <= n THEN IntSqrtSearch(n, mid, hi) ELSE IntSqrtSearch(n, lo, mid - 1)

\* the largest Real y in lo..hi with y * y <= a
RECURSIVE SqrtSearch(_, _, _)
SqrtSearch(a, lo, hi) ==
    IF lo >= hi THEN lo
    ELSE LET mid == (lo + hi + 1) \div 2
             sq == MulAbs(mid, mid)
         IN IF sq < a \/ (sq = a /\ MulRem(mid, mid) = 0)
            THEN SqrtSearch(a, mid, hi) ELSE SqrtSearch(a, lo, mid - 1)

\* f64::sqrt, truncated: the root lies between 1000 * s and 1000 * s + 999
\* for s the integer root of the count of millionths
Sqrt(a) ==
    IF IsFinite(a) /\ a >= 0
    THEN LET s == IntSqrtSearch(a, 0, 46340)
         IN SqrtSearch(a, 1000 * s, 1000 * s + 999)
    ELSE NonFinite

\* comparison `a > b`: false when either side is a NaN
Greater(a, b) == IsFinite(a) /\ IsFinite(b) /\ a > b

\* `as usize` of a Real: truncation, 0 for negatives and for NaN
AsUsize(a) == IF ~IsFinite(a) \/ a < 0 THEN 0 ELSE a \div One

\* `n as Real`
AsReal(n) == n * One

Max(a, b) == IF a >= b THEN a ELSE b

\* Real::min
Min(a, b) == IF ~IsFinite(a) THEN b ELSE IF ~IsFinite(b) THEN a ELSE IF a <= b THEN a ELSE b

(* units::Vector and units::Point: pairs of Reals *)
VZero == <<0, 0>>
VAdd(u, v) == <<Add(u[1], v[1]), Add(u[2], v[2])>>
VSub(u, v) == <<Sub(u[1], v[1]), Sub(u[2], v[2])>>
VScale(u, k) == <<Mul(u[1], k), Mul(u[2], k)>>
VDiv(u, k) == <<Div(u[1], k), Div(u[2], k)>>
VIsFinite(u) == IsFinite(u[1]) /\ IsFinite(u[2])
norm_squared(u) == Add(Mul(u[1], u[1]), Mul(u[2], u[2]))
distance_squared(a, b) == norm_squared(VSub(a, b))
distance(a, b) == Sqrt(distance_squared(a, b))

-----------------------------------------------------------------------------
(* sph/morton.rs: Z-order codes.  The file is not part of the sources at   *)
(* hand; these operators follow the specification's description (bit       *)
(* interleaving of x and y, BIGMIN as the smallest code in the rectangle   *)
(* from the current code onwards).                                         *)

\* CellIndex::max_value(): all 2*Bits code bits set
CellIndexMax == Pow2(2 * Bits) - 1

RECURSIVE Spread(_, _)
Spread(x, n) == IF n = 0 THEN 0 ELSE (x % 2) + 4 * Spread(x \div 2, n - 1)

\* the low Bits bits of x moved to the even bit positions
part_1by1(x) == Spread(x % Pow2(Bits), Bits)

\* morton::encode: x on the even bits, y on the odd bits
encode(x, y) == part_1by1(x) + 2 * part_1by1(y)

RECURSIVE EvenBits(_, _)
EvenBits(c, n) == IF n = 0 THEN 0 ELSE (c % 2) + 4 * EvenBits(c \div 4, n - 1)

\* the x bits of a code (cidx & 0x5555...) and its y bits (cidx & 0xAAAA...)
XBits(c) == EvenBits(c, Bits)
YBits(c) == c - EvenBits(c, Bits)

\* morton::is_in_rect_presplit: both coordinates of the code inside the rectangle
is_in_rect_presplit(cidx, min_xbits, min_ybits, max_xbits, max_ybits) ==
    /\ min_xbits <= XBits(cidx) /\ XBits(cidx) <= max_xbits
    /\ min_ybits <= YBits(cidx) /\ YBits(cidx) <= max_ybits

\* morton::find_bigmin: the smallest code from cidx onwards that lies in the rectangle
find_bigmin(cidx, cidx_min, cidx_max) ==
    LET S == {c \in cidx..cidx_max :
                is_in_rect_presplit(c, XBits(cidx_min), YBits(cidx_min),
                                       XBits(cidx_max), YBits(cidx_max))}
    IN IF S = {} THEN cidx_max ELSE SetMin(S)

-----------------------------------------------------------------------------
(* sph/neighborhood_search.rs: pure parts *)

\* NeighborhoodSearch::radius, in model length units
radius == 1
\* new(): cell_size = radius * 2.0  (cell_size_inv is its inverse)
cell_size == radius * 2
\* new(): grid_min
grid_min == <<-100, -100>>

\* `as CellIndex` of a float: truncation towards zero, saturating at 0 for negatives
AsCellIndex(v) == IF v < 0 THEN 0 ELSE v \div cell_size

position_to_cellpos(position) ==
    [x |-> AsCellIndex(position[1] - grid_min[1]),
     y |-> AsCellIndex(position[2] - grid_min[2])]

cellpos_to_cidx(cellpos) == encode(cellpos.x, cellpos.y)

position_to_cidx(position) == cellpos_to_cidx(position_to_cellpos(position))

\* find_next_cell: LINEAR_SEARCH_THRESHHOLD
LINEAR_SEARCH_THRESHHOLD == 16

\* the value of a search that read cells.get_unchecked(i) with i >= cells.len()
OutOfBounds == 0 - 1

\* find_next_cell, the final linear scan `for pos in min..max`
RECURSIVE LinearScan(_, _, _, _)
LinearScan(cs, cidx, pos, max) ==
    IF pos >= max THEN max
    ELSE IF pos >= Len(cs) THEN OutOfBounds
    ELSE IF cs[pos + 1].cidx >= cidx THEN pos
    ELSE LinearScan(cs, cidx, pos + 1, max)

\* a variant of the halving loop that takes mid before halving range
RECURSIVE Halving_midBeforeHalving(_, _, _, _, _)
Halving_midBeforeHalving(cs, cidx, min, max, range) ==
    IF range > LINEAR_SEARCH_THRESHHOLD
    THEN LET r   == range \div 2
             mid == min + range
         IN IF mid >= Len(cs) THEN OutOfBounds
            ELSE IF cs[mid + 1].cidx > cidx THEN Halving_midBeforeHalving(cs, cidx, min, mid, r)
            ELSE IF cs[mid + 1].cidx < cidx THEN Halving_midBeforeHalving(cs, cidx, mid, max, r)
            ELSE mid
    ELSE LinearScan(cs, cidx, min, max)

\* find_next_cell, the halving loop `while range > LINEAR_SEARCH_THRESHHOLD`
RECURSIVE Halving(_, _, _, _, _)
Halving(cs, cidx, min, max, range) ==
    IF range > LINEAR_SEARCH_THRESHHOLD
    THEN LET r   == range \div 2
             mid == min + r
         IN IF mid >= Len(cs) THEN OutOfBounds
            ELSE IF cs[mid + 1].cidx > cidx THEN Halving(cs, cidx, min, mid, r)
            ELSE IF cs[mid + 1].cidx < cidx THEN Halving(cs, cidx, mid, max, r)
            ELSE mid
    ELSE LinearScan(cs, cidx, min, max)

\* find_next_cell(cells, cidx): 0-based index of the first cell with code >= cidx
find_next_cell(cs, cidx) == Halving(cs, cidx, 0, Len(cs), Len(cs))

\* sort_by_key(|a| a.cidx): stable insertion of one element into a sorted sequence
RECURSIVE InsertByKey(_, _)
InsertByKey(s, e) ==
    IF s = <<>> THEN <<e>>
    ELSE IF s[Len(s)].cidx <= e.cidx THEN Append(s, e)
    ELSE Append(InsertByKey(SubSeq(s, 1, Len(s) - 1), e), s[Len(s)])

RECURSIVE SortByCidx(_)
SortByCidx(s) ==
    IF s = <<>> THEN <<>>
    ELSE InsertByKey(SortByCidx(SubSeq(s, 1, Len(s) - 1)), s[Len(s)])

\* update(), lines 78-92: grow the particle array to the new count
GrowParticles(ps, n) ==
    ps \o [k \in 1..(n - Len(ps)) |-> [pidx |-> Len(ps) + k - 1, cidx |-> 0]]

\* a slip in lines 95-97: the position is taken at the array index, not at p.pidx
UpdateCellIndices_byArrayIndex(ps, pos) ==
    [k \in DOMAIN ps |-> [pidx |-> ps[k].pidx, cidx |-> position_to_cidx(pos[k])]]

\* update(), lines 95-97: recompute every particle's cell code
UpdateCellIndices(ps, pos) ==
    [k \in DOMAIN ps |-> [pidx |-> ps[k].pidx, cidx |-> position_to_cidx(pos[ps[k].pidx + 1])]]

\* update(), lines 103-113: one cell per run of equal codes, scanning with prev_cidx
RECURSIVE CreateCells(_, _, _, _)
CreateCells(ps, k, prev_cidx, acc) ==
    IF k > Len(ps) THEN acc
    ELSE IF ps[k].cidx # prev_cidx
         THEN CreateCells(ps, k + 1, ps[k].cidx,
                          Append(acc, [first_particle |-> k - 1, cidx |-> ps[k].cidx]))
         ELSE CreateCells(ps, k + 1, prev_cidx, acc)

\* update(), lines 114-117: the sentinel cell
WithSentinel(cs, n) == Append(cs, [first_particle |-> n, cidx |-> CellIndexMax])

\* update(): the new particle array and cell table for `pos`
UpdatedParticles(ps, pos) == SortByCidx(UpdateCellIndices(GrowParticles(ps, Len(pos)), pos))

UpdatedCells(sorted) == WithSentinel(CreateCells(sorted, 1, CellIndexMax, <<>>), Len(sorted))

\* a slip in lines 78-81: the arrays are shrunk before the call gives up
update_truncating(ps, cs, pos) ==
    IF Len(ps) > Len(pos)
    THEN [particles |-> SubSeq(ps, 1, Len(pos)), cells |-> <<>>, panicked |-> TRUE]
    ELSE LET sorted == UpdatedParticles(ps, pos)
         IN [particles |-> sorted, cells |-> UpdatedCells(sorted), panicked |-> FALSE]

\* update(positions): the index after the call, or the untouched index and a panic
\* (unimplemented!) when the index holds more particles than `pos` has positions
update(ps, cs, pos) ==
    IF Len(ps) > Len(pos)
    THEN [particles |-> ps, cells |-> cs, panicked |-> TRUE]
    ELSE LET sorted == UpdatedParticles(ps, pos)
         IN [particles |-> sorted, cells |-> UpdatedCells(sorted), panicked |-> FALSE]

\* foreach_potential_neighbor, lines 144-152: the query rectangle in cell space
QueryCellposMin(p) == position_to_cellpos(<<p[1] - radius, p[2] - radius>>)
QueryCellposMax(p) == position_to_cellpos(<<p[1] + radius, p[2] + radius>>)
cidx_min_xbits(p) == part_1by1(QueryCellposMin(p).x)
cidx_min_ybits(p) == 2 * part_1by1(QueryCellposMin(p).y)
cidx_min(p) == cidx_min_xbits(p) + cidx_min_ybits(p)
cidx_max_xbits(p) == part_1by1(QueryCellposMax(p).x)
cidx_max_ybits(p) == 2 * part_1by1(QueryCellposMax(p).y)
cidx_max(p) == cidx_max_xbits(p) + cidx_max_ybits(p)

\* foreach_potential_neighbor: MAX_CONSECUTIVE_CELL_MISSES
MAX_CONSECUTIVE_CELL_MISSES == 8

\* a slip in lines 163 and 186: the code is compared with code_min and code_max only
InQueryRect_codeRange(cidx, p) == cidx_min(p) <= cidx /\ cidx <= cidx_max(p)

\* the rectangle test of lines 163 and 186 for the query point p
InQueryRect(cidx, p) ==
    is_in_rect_presplit(cidx, cidx_min_xbits(p), cidx_min_ybits(p),
                              cidx_max_xbits(p), cidx_max_ybits(p))

\* a slip in line 172: the cursor is not advanced
SingleStep_stay(idx) == idx

\* lines 167-173: the cursor after one miss, by a single step or by a BIGMIN jump
SingleStep(idx) == idx + 1

\* a slip in line 169: the jump lands one cell behind the cell of BIGMIN
BigminJump_overshoot(cs, idx, p) ==
    idx + find_next_cell(SubSeq(cs, idx + 1, Len(cs)),
                         find_bigmin(cs[idx + 1].cidx, cidx_min(p), cidx_max(p))) + 1

BigminJump(cs, idx, p) ==
    idx + find_next_cell(SubSeq(cs, idx + 1, Len(cs)),
                         find_bigmin(cs[idx + 1].cidx, cidx_min(p), cidx_max(p)))

\* a slip in line 194: the range starts one particle late
ConsumeParticles_skipFirst(ps, first, last) ==
    [k \in 1..(last - first - 1) |-> ps[first + k + 1].pidx]

\* lines 194-196: the ids of the sorted particles first..last-1, in order
ConsumeParticles(ps, first, last) ==
    [k \in 1..(last - first) |-> ps[first + k].pidx]

-----------------------------------------------------------------------------
(* Inputs of the neighbourhood search *)

PosAt(x, y) == <<grid_min[1] + x, grid_min[2] + y>>

\* add_fluid_rect, lines 100-106 with jitter 0: the lattice, row by row
LatticePoints(bottom_left, nx, ny, step) ==
    [k \in 1..(nx * ny) |->
        <<bottom_left[1] + step * ((k - 1) % nx), bottom_left[2] + step * ((k - 1) \div nx)>>]

\* lattice fills of an empty store: a dense block of one particle per cell (cells
\* 4..7 x 0..3), three coincident particles, a sub-cell lattice around the grid
\* centre, and a lattice in the corner cell at grid_min
Blocks ==
    { LatticePoints(PosAt(8, 0), 4, 4, cell_size),
      LatticePoints(PosAt(8, 8), 3, 1, 0),
      LatticePoints(PosAt(6, 6), 3, 3, 1),
      LatticePoints(PosAt(0, 0), 2, 2, 1) }

\* single particles that arrive later
FreePoints == { PosAt(7, 7), PosAt(8, 9), PosAt(10, 7) }

\* query points: a square around the grid centre, and the grid corner
QueryPoints ==
    { PosAt(8 + dx, 8 + dy) : dx \in (0 - QuerySpan)..QuerySpan, dy \in (0 - QuerySpan)..QuerySpan }
    \cup { PosAt(0, 0) }

Reverse(s) == [k \in DOMAIN s |-> s[Len(s) + 1 - k]]

-----------------------------------------------------------------------------
(* The neighbourhood search as a state machine *)

NoQuery == <<0, 0>>

StoreIdle ==
    /\ positions = <<>>
    /\ particles = <<>>
    /\ cells = <<>>
    /\ pc = "idle"
    /\ lastcall = [op |-> "new", n |-> 0]
    /\ driver = [free |-> 0, moved |-> FALSE, updated |-> FALSE]
    /\ qpos = NoQuery
    /\ cell_arrayidx = 0
    /\ num_misses = 0
    /\ first_particle = 0
    /\ visited = <<>>
    /\ jumps = <<>>
    /\ velocities = <<>>
    /\ accellerations = <<>>
    /\ densities = <<>>
    /\ boundary_particles = <<>>
    /\ num_steps = 0

InitNS == StoreIdle /\ CameraIdle /\ FindIdle /\ workers = <<>>

queryvars == <<qpos, cell_arrayidx, num_misses, first_particle, visited, jumps>>

\* NeighborhoodSearch::update(pos)
Update(pos) ==
    /\ pc = "idle"
    /\ LET r == update(particles, cells, pos)
       IN /\ particles' = r.particles
          /\ cells' = r.cells
          /\ pc' = IF r.panicked THEN "panic" ELSE "idle"
          /\ positions' = IF r.panicked THEN positions ELSE pos
    /\ lastcall' = [op |-> "update", n |-> Len(pos)]
    /\ UNCHANGED <<queryvars, storevars, auxvars>>

\* the store was filled by add_fluid_rect, then update
UpdateAfterFill ==
    /\ positions = <<>>
    /\ \E b \in Blocks : Update(b)
    /\ driver' = [driver EXCEPT !.updated = TRUE]

\* one more particle was appended to the store, then update
UpdateAfterAppend ==
    /\ driver.free < MaxFree
    /\ \E p \in FreePoints : Update(Append(positions, p))
    /\ driver' = [driver EXCEPT !.free = @ + 1, !.updated = TRUE]

\* the particles moved (they exchanged places), then update
UpdateAfterMove ==
    /\ Len(positions) >= 2
    /\ ~driver.moved
    /\ Update(Reverse(positions))
    /\ driver' = [driver EXCEPT !.moved = TRUE, !.updated = TRUE]

\* update again with the positions unchanged (the very first time: no particles)
UpdateAgain ==
    /\ Update(positions)
    /\ driver' = [driver EXCEPT !.updated = TRUE]

\* update with a shorter slice than the index holds
UpdateWithFewer ==
    /\ Len(particles) >= 1
    /\ \E n \in {0, Len(particles) - 1} : Update(SubSeq(positions, 1, n))
    /\ UNCHANGED driver

\* foreach_potential_neighbor, lines 144-158: entry, first cell lookup
Query ==
    /\ pc = "idle"
    /\ \E p \in QueryPoints :
         LET idx == find_next_cell(cells, cidx_min(p))
         IN /\ qpos' = p
            /\ cell_arrayidx' = idx
            /\ pc' = IF idx >= Len(cells) THEN "panic" ELSE "outer"
    /\ num_misses' = 0
    /\ first_particle' = 0
    /\ visited' = <<>>
    /\ jumps' = <<>>
    /\ lastcall' = [op |-> "foreach_potential_neighbor", n |-> Len(particles)]
    /\ UNCHANGED <<positions, particles, cells, driver, storevars, auxvars>>

\* the local `cell`: always cells[cell_arrayidx] when it is read
Cell == cells[cell_arrayidx + 1]

frame == <<positions, particles, cells, lastcall, driver, qpos, storevars, auxvars>>

\* line 160: while cell.cidx <= cidx_max
OuterTest ==
    /\ pc = "outer"
    /\ pc' = IF Cell.cidx <= cidx_max(qpos) THEN "skip" ELSE "done"
    /\ num_misses' = 0
    /\ UNCHANGED <<frame, cell_arrayidx, first_particle, visited, jumps>>

\* the cursor has moved to idx inside the skip loop: lines 174-178
AfterMiss(idx) ==
    /\ cell_arrayidx' = idx
    /\ pc' = IF idx >= Len(cells) THEN "panic"
             ELSE IF cells[idx + 1].cidx > cidx_max(qpos) THEN "done"
             ELSE "skip"

\* lines 163-173, a miss below the threshold: advance by one cell
SkipStep ==
    /\ pc = "skip"
    /\ ~InQueryRect(Cell.cidx, qpos)
    /\ num_misses + 1 <= MAX_CONSECUTIVE_CELL_MISSES
    /\ num_misses' = num_misses + 1
    /\ AfterMiss(SingleStep(cell_arrayidx))
    /\ UNCHANGED <<frame, first_particle, visited, jumps>>

\* lines 163-170, a miss above the threshold: jump to the cell of BIGMIN
SkipJump ==
    /\ pc = "skip"
    /\ ~InQueryRect(Cell.cidx, qpos)
    /\ num_misses + 1 > MAX_CONSECUTIVE_CELL_MISSES
    /\ num_misses' = num_misses + 1
    /\ LET idx == BigminJump(cells, cell_arrayidx, qpos)
       IN /\ jumps' = Append(jumps, <<cell_arrayidx, idx>>)
          /\ IF find_bigmin(Cell.cidx, cidx_min(qpos), cidx_max(qpos)) > Cell.cidx
             THEN AfterMiss(idx)
             ELSE cell_arrayidx' = idx /\ pc' = "panic"
    /\ UNCHANGED <<frame, first_particle, visited>>

\* line 163 false, line 182: the cell is in the rectangle, a run starts
SkipHit ==
    /\ pc = "skip"
    /\ InQueryRect(Cell.cidx, qpos)
    /\ first_particle' = Cell.first_particle
    /\ pc' = "run"
    /\ UNCHANGED <<frame, cell_arrayidx, num_misses, visited, jumps>>

\* lines 183-189, the next cell is in the rectangle too: the run goes on
RunStep ==
    /\ pc = "run"
    /\ cell_arrayidx + 1 < Len(cells)
    /\ InQueryRect(cells[cell_arrayidx + 2].cidx, qpos)
    /\ cell_arrayidx' = cell_arrayidx + 1
    /\ UNCHANGED <<frame, pc, num_misses, first_particle, visited, jumps>>

\* lines 183-203, the next cell is outside: the run ends, its particles are
\* consumed and the cell that ended it is skipped
RunEnd ==
    /\ pc = "run"
    /\ IF cell_arrayidx + 1 >= Len(cells)
       THEN /\ cell_arrayidx' = cell_arrayidx + 1
            /\ pc' = "panic"
            /\ UNCHANGED visited
       ELSE /\ ~InQueryRect(cells[cell_arrayidx + 2].cidx, qpos)
            /\ IF cells[cell_arrayidx + 2].cidx = cidx_max(qpos)
               THEN /\ cell_arrayidx' = cell_arrayidx + 1
                    /\ pc' = "panic"
                    /\ UNCHANGED visited
               ELSE /\ visited' = visited \o ConsumeParticles(particles, first_particle,
                                                 cells[cell_arrayidx + 2].first_particle)
                    /\ cell_arrayidx' = cell_arrayidx + 2
                    /\ pc' = IF cell_arrayidx + 2 >= Len(cells) THEN "done" ELSE "outer"
    /\ UNCHANGED <<frame, num_misses, first_particle, jumps>>

\* the call returns; its locals are gone
Return ==
    /\ pc = "done"
    /\ pc' = "idle"
    /\ qpos' = NoQuery
    /\ cell_arrayidx' = 0
    /\ num_misses' = 0
    /\ first_particle' = 0
    /\ visited' = <<>>
    /\ jumps' = <<>>
    /\ UNCHANGED <<positions, particles, cells, lastcall, driver, storevars, auxvars>>

NextNS ==
    \/ UpdateAfterFill
    \/ UpdateAfterAppend
    \/ UpdateAfterMove
    \/ UpdateAgain
    \/ UpdateWithFewer
    \/ Query
    \/ OuterTest
    \/ SkipStep
    \/ SkipJump
    \/ SkipHit
    \/ RunStep
    \/ RunEnd
    \/ Return

SpecNS == InitNS /\ [][NextNS]_vars

-----------------------------------------------------------------------------
(* Claims about the neighbourhood search *)

Ids == 0..(Len(positions) - 1)

\* how often the visitor was called with id i
TimesVisited(i) == Cardinality({k \in DOMAIN visited : visited[k] = i})

\* squared euclidean distance of two grid points
GridDistanceSquared(a, b) == (a[1] - b[1]) * (a[1] - b[1]) + (a[2] - b[2]) * (a[2] - b[2])

\* the ids within radius of p (brute force)
WithinRadius(p) == {i \in Ids : GridDistanceSquared(p, positions[i + 1]) <= radius * radius}

\* the ids whose grid cell has both coordinates in the cell box of p -+ radius
InCellBox(i, p) ==
    LET c == position_to_cellpos(positions[i + 1])
    IN /\ QueryCellposMin(p).x <= c.x /\ c.x <= QueryCellposMax(p).x
       /\ QueryCellposMin(p).y <= c.y /\ c.y <= QueryCellposMax(p).y

\* C1 as stated: when foreach_potential_neighbor has returned, the visitor was called
\* with exactly the ids within radius of the query point, with no id farther away.
C1_ExactlyTheNeighbors ==
    pc = "done" => Range(visited) = WithinRadius(qpos)

\* C1 amended: when foreach_potential_neighbor has returned, every id within radius of
\* the query point was reported (none is missed); ids farther than radius are reported
\* too, but every reported id lies less than 3 * radius from the query point on each
\* axis (it comes from a grid cell that overlaps the square p -+ radius).
C1_NoNeighborMissed ==
    pc = "done" =>
        /\ WithinRadius(qpos) \subseteq Range(visited)
        /\ \A i \in Range(visited) :
              /\ i \in Ids
              /\ Abs(positions[i + 1][1] - qpos[1]) < 3 * radius
              /\ Abs(positions[i + 1][2] - qpos[2]) < 3 * radius

\* a query returned both a true neighbour and a candidate farther than radius
C1_Witness ==
    /\ pc = "done"
    /\ WithinRadius(qpos) # {}
    /\ Range(visited) \ WithinRadius(qpos) # {}

\* C2: when foreach_potential_neighbor has returned, f was called exactly once for every
\* id whose cell lies in the cell box of p -+ radius and never for any other id; cells
\* whose code is between code_min and code_max but outside the box contribute nothing.
C2_ExactlyTheCellBox ==
    pc = "done" =>
        /\ Range(visited) \subseteq Ids
        /\ \A i \in Ids : TimesVisited(i) = IF InCellBox(i, qpos) THEN 1 ELSE 0

\* a query that reported particles while a non-empty cell with a code between code_min
\* and code_max lay outside the box
C2_Witness ==
    /\ pc = "done"
    /\ visited # <<>>
    /\ \E i \in Ids :
          /\ ~InCellBox(i, qpos)
          /\ cidx_min(qpos) < position_to_cidx(positions[i + 1])
          /\ position_to_cidx(positions[i + 1]) < cidx_max(qpos)

\* the ids a traversal reports that only ever advances the cursor by one cell
RECURSIVE LinearTraversal(_, _, _, _, _)
LinearTraversal(cs, ps, p, k, acc) ==
    IF k >= Len(cs) \/ cs[k].cidx > cidx_max(p) THEN acc
    ELSE IF InQueryRect(cs[k].cidx, p)
         THEN LinearTraversal(cs, ps, p, k + 1,
                 acc \o [n \in 1..(cs[k + 1].first_particle - cs[k].first_particle) |->
                            ps[cs[k].first_particle + n].pidx])
         ELSE LinearTraversal(cs, ps, p, k + 1, acc)

\* C3: no BIGMIN jump passes over a cell inside the query rectangle, and when the call
\* has returned the visitor has seen the same ids, in the same order, as a traversal
\* of the cell table that advances one cell at a time.
C3_JumpsSkipNoCellInRect ==
    /\ \A j \in DOMAIN jumps :
          \A k \in jumps[j][1]..(jumps[j][2] - 1) : ~InQueryRect(cells[k + 1].cidx, qpos)
    /\ pc = "done" =>
          visited = LinearTraversal(cells, particles, qpos,
                                    find_next_cell(cells, cidx_min(qpos)) + 1, <<>>)

\* a query returned after a BIGMIN jump that skipped at least one cell and landed on a
\* cell inside the rectangle
C3_Witness ==
    /\ pc = "done"
    /\ \E j \in DOMAIN jumps :
          /\ jumps[j][2] > jumps[j][1] + 1
          /\ InQueryRect(cells[jumps[j][2] + 1].cidx, qpos)

\* the index is the one update builds for the positions pos
IndexConsistent(ps, cs, pos) ==
    /\ Len(ps) = Len(pos)
    /\ {ps[k].pidx : k \in DOMAIN ps} = 0..(Len(pos) - 1)
    /\ \A k \in DOMAIN ps : ps[k].cidx = position_to_cidx(pos[ps[k].pidx + 1])
    /\ \A k \in 1..(Len(ps) - 1) : ps[k].cidx <= ps[k + 1].cidx
    /\ Len(cs) >= 1
    /\ cs[Len(cs)] = [first_particle |-> Len(pos), cidx |-> CellIndexMax]
    /\ \A k \in 1..(Len(cs) - 1) : cs[k].cidx < cs[k + 1].cidx
    /\ {cs[k].cidx : k \in 1..(Len(cs) - 1)} = {ps[k].cidx : k \in DOMAIN ps}
    /\ \A k \in 1..(Len(cs) - 1) :
          cs[k].first_particle = SetMin({n \in DOMAIN ps : ps[n].cidx = cs[k].cidx}) - 1

C5_FewerPositionsPanicUntouched ==
    [][(lastcall'.op = "update" /\ lastcall'.n < Len(particles))
          => (pc' = "panic" /\ particles' = particles /\ cells' = cells)]_vars

\* update was called with fewer positions on a populated index and panicked
C5_Witness ==
    /\ pc = "panic"
    /\ lastcall.op = "update"
    /\ lastcall.n < Len(particles)
    /\ Len(cells) > 1

\* one iteration of the miss-skipping loop or of the in-rectangle run loop
LoopIteration ==
    \/ pc = "skip" /\ ~InQueryRect(Cell.cidx, qpos)
    \/ pc = "run"

-----------------------------------------------------------------------------
(* HydroParticles::new / FluidParticleWorld::new: the fluid parameters *)

smoothing_factor == R(12, 10)
\* particles per square metre of the resting fluid
particle_density == R(4, 1)
\* kg per square metre of the resting fluid
fluid_density == R(1, 1)
fluid_speedofsound == R(2, 1)
fluid_viscosity == R(1, 100)

particle_radius_from_particle_density(pd) == Div(R(1, 2), Sqrt(pd))

smoothing_length ==
    Mul(Mul(R(2, 1), particle_radius_from_particle_density(particle_density)), smoothing_factor)

smoothing_length_sq == Mul(smoothing_length, smoothing_length)

fluid_speedofsound_sq == Mul(fluid_speedofsound, fluid_speedofsound)

boundary_force_factor == R(10, 1)

particle_mass == Div(fluid_density, particle_density)

pressure(local_density) == Mul(fluid_speedofsound_sq, Sub(local_density, fluid_density))

num_particles_per_meter == Sqrt(particle_density)

-----------------------------------------------------------------------------
(* smoothing_kernel.rs: the two-dimensional Poly6, Spiky and Viscosity      *)
(* kernels of radius h = smoothing_length                                   *)

Pi == 3 * One + 141593

\* h to the fifth and to the eighth power
smoothing_length_pow5 == Mul(Mul(smoothing_length_sq, smoothing_length_sq), smoothing_length)
smoothing_length_pow8 ==
    Mul(Mul(smoothing_length_sq, smoothing_length_sq), Mul(smoothing_length_sq, smoothing_length_sq))

\* Poly6: 4 / (pi h^8) * (h^2 - r^2)^3, 0 outside the radius
Poly6_normalizer == Div(R(4, 1), Mul(Pi, smoothing_length_pow8))

Poly6_evaluate(r_sq, r) ==
    IF Greater(r_sq, smoothing_length_sq) THEN 0
    ELSE LET d == Sub(smoothing_length_sq, r_sq)
         IN Mul(Poly6_normalizer, Mul(Mul(d, d), d))

\* Spiky: gradient -30 / (pi h^5) * (h - r)^2 * ri_rj / r
Spiky_normalizer_grad == Neg(Div(R(30, 1), Mul(Pi, smoothing_length_pow5)))

Spiky_gradient(ri_rj, r_sq, r) ==
    IF Greater(r, smoothing_length) THEN VZero
    ELSE LET d == Sub(smoothing_length, r)
         IN VScale(ri_rj, Div(Mul(Spiky_normalizer_grad, Mul(d, d)), r))

\* Viscosity: laplacian 40 / (pi h^5) * (h - r)
Viscosity_normalizer_laplacian == Div(R(40, 1), Mul(Pi, smoothing_length_pow5))

Viscosity_laplacian(r_sq, r) ==
    IF Greater(r, smoothing_length) THEN 0
    ELSE Mul(Viscosity_normalizer_laplacian, Sub(smoothing_length, r))

-----------------------------------------------------------------------------
(* The particle store as a value: the five vectors of HydroParticles and   *)
(* of fluidparticleworld::Particles                                        *)

Store(p, v, a, d, b) ==
    [positions |-> p, velocities |-> v, accellerations |-> a, densities |-> d,
     boundary_particles |-> b]

\* Vec::resize(len + n, value)
Resize(vec, n, value) == vec \o [k \in 1..n |-> value]

\* a variant without the clamp to one particle
num_particles_x_unclamped(fluid_rect) == AsUsize(Mul(fluid_rect.w, num_particles_per_meter))

\* lines 88-89: particles per row and per column
num_particles_x(fluid_rect) == Max(1, AsUsize(Mul(fluid_rect.w, num_particles_per_meter)))
num_particles_y(fluid_rect) == Max(1, AsUsize(Mul(fluid_rect.h, num_particles_per_meter)))

\* line 98: the lattice step of a rectangle
fluid_rect_step(fluid_rect) ==
    Min(Div(fluid_rect.w, AsReal(num_particles_x(fluid_rect))),
        Div(fluid_rect.h, AsReal(num_particles_y(fluid_rect))))

\* line 102: the jitter of one particle, random being the value of Vector::new_random()
jitter(random, jitter_factor) ==
    VScale(VAdd(VScale(random, R(1, 2)), <<R(1, 2), R(1, 2)>>), jitter_factor)

\* lines 97-106: the positions pushed, row by row; random[k] is the k-th random vector drawn
fluid_rect_positions(fluid_rect, jitter_amount, random) ==
    LET nx == num_particles_x(fluid_rect)
        ny == num_particles_y(fluid_rect)
        bottom_left == <<fluid_rect.x, fluid_rect.y>>
        step == fluid_rect_step(fluid_rect)
        jitter_factor == Mul(step, jitter_amount)
    IN [k \in 1..(nx * ny) |->
          LET x == (k - 1) % nx
              y == (k - 1) \div nx
          IN VAdd(VAdd(bottom_left, jitter(random[k], jitter_factor)),
                  <<Mul(step, AsReal(x)), Mul(step, AsReal(y))>>)]

\* a variant that leaves the densities vector as it was
add_fluid_rect_noDensitySlot(hp, fluid_rect, jitter_amount, random) ==
    LET num_particles == num_particles_x(fluid_rect) * num_particles_y(fluid_rect)
    IN Store(hp.positions \o fluid_rect_positions(fluid_rect, jitter_amount, random),
             Resize(hp.velocities, num_particles, VZero),
             Resize(hp.accellerations, num_particles, VZero),
             hp.densities,
             hp.boundary_particles)

\* HydroParticles::add_fluid_rect, FluidParticleWorld::add_fluid_rect
add_fluid_rect(hp, fluid_rect, jitter_amount, random) ==
    LET num_particles == num_particles_x(fluid_rect) * num_particles_y(fluid_rect)
    IN Store(hp.positions \o fluid_rect_positions(fluid_rect, jitter_amount, random),
             Resize(hp.velocities, num_particles, VZero),
             Resize(hp.accellerations, num_particles, VZero),
             Resize(hp.densities, num_particles, 0),
             hp.boundary_particles)

num_shadow_particles(start, end) ==
    Max(1, AsUsize(Mul(distance(start, end), num_particles_per_meter)))

\* lines 116-120: pos starts at start and grows by step after every push
RECURSIVE boundary_line_positions(_, _, _)
boundary_line_positions(pos, step, n) ==
    IF n = 0 THEN <<>> ELSE <<pos>> \o boundary_line_positions(VAdd(pos, step), step, n - 1)

\* a variant that advances pos before the first push
add_boundary_line_fromStep(hp, start, end) ==
    LET n == num_shadow_particles(start, end)
        step == VDiv(VSub(end, start), AsReal(n))
    IN [hp EXCEPT !.boundary_particles = @ \o boundary_line_positions(VAdd(start, step), step, n)]

\* HydroParticles::add_boundary_line, FluidParticleWorld::add_boundary_line
add_boundary_line(hp, start, end) ==
    LET n == num_shadow_particles(start, end)
        step == VDiv(VSub(end, start), AsReal(n))
    IN [hp EXCEPT !.boundary_particles = @ \o boundary_line_positions(start, step, n)]

-----------------------------------------------------------------------------
(* Density estimation *)

RECURSIVE SumReals(_)
SumReals(seq) ==
    With(seq, LAMBDA s : IF s = <<>> THEN 0 ELSE Add(Head(s), SumReals(Tail(s))))

SumVectors(seq) ==
    With(seq, LAMBDA s : <<SumReals([k \in 1..Len(s) |-> s[k][1]]),
                          SumReals([k \in 1..Len(s) |-> s[k][2]])>>)

\* lines 136-140, 145-149: the contribution of a source at rj to a particle at ri
density_contribution(ri, rj) ==
    LET r_sq == distance_squared(ri, rj)
    IN IF Greater(r_sq, smoothing_length_sq) THEN 0
       ELSE Mul(Poly6_evaluate(r_sq, Sqrt(r_sq)), particle_mass)

\* line 134: the self-contribution
self_contribution == Mul(Poly6_evaluate(0, 0), particle_mass)

\* lines 144-151: the contributions of the boundary particles to a particle at ri
boundary_contributions(hp, ri) ==
    [k \in 1..Len(hp.boundary_particles) |-> density_contribution(ri, hp.boundary_particles[k])]

\* HydroParticles::update_densities.  The pair (i, j), i < j, is evaluated
\* once, at iteration i, and added to both densities[i] and densities[j].
HydroParticles_update_densities(hp) ==
    LET n == Len(hp.positions)
        pair(i, j) == density_contribution(hp.positions[i], hp.positions[j])
        of(m) == Add(Add(self_contribution,
                         SumReals([j \in 1..n |->
                                     IF j < m THEN pair(j, m)
                                     ELSE IF j > m THEN pair(m, j) ELSE 0])),
                     SumReals(boundary_contributions(hp, hp.positions[m])))
    IN IF Len(hp.positions) # Len(hp.densities)
       THEN [store |-> hp, panicked |-> TRUE]
       ELSE [store |-> [hp EXCEPT !.densities = [m \in 1..n |-> of(m)]], panicked |-> FALSE]

\* FluidParticleWorld::update_densities: the closure of particle i starts from
\* the self-contribution and then runs over every entry of positions
FluidParticleWorld_update_densities(fw) ==
    LET n == Len(fw.positions)
        of(i) == Add(Add(self_contribution,
                         SumReals([j \in 1..n |->
                                     density_contribution(fw.positions[i], fw.positions[j])])),
                     SumReals(boundary_contributions(fw, fw.positions[i])))
    IN IF Len(fw.positions) # Len(fw.densities)
       THEN [store |-> fw, panicked |-> TRUE]
       ELSE [store |-> [fw EXCEPT !.densities = [i \in 1..n |-> of(i)]], panicked |-> FALSE]

-----------------------------------------------------------------------------
(* Force estimation: HydroParticles::update_accellerations.  The state of  *)
(* the pass is the accellerations vector and whether an assertion failed.  *)

\* line 158
gravity == VScale(<<0, Neg(R(981, 100))>>, R(1, 100))

\* lines 183: -mass * (pi + pj) / (2.0 * rhoi * rhoj)
fpressure_unsmoothed(rhoi, rhoj) ==
    Div(Mul(Neg(particle_mass), Add(pressure(rhoi), pressure(rhoj))),
        Mul(Mul(R(2, 1), rhoi), rhoj))

\* lines 186-193: the pressure and viscosity accelleration of the pair (i, j)
ftotal(hp, i, j) ==
    LET ri_rj == VSub(hp.positions[i], hp.positions[j])
        r_sq == norm_squared(ri_rj)
        r == Sqrt(r_sq)
        rhoi == hp.densities[i]
        rhoj == hp.densities[j]
        fpressure == VScale(Spiky_gradient(ri_rj, r_sq, r), fpressure_unsmoothed(rhoi, rhoj))
        velocitydiff == VSub(hp.velocities[j], hp.velocities[i])
        fviscosity == VScale(velocitydiff,
                             Div(Mul(Mul(fluid_viscosity, particle_mass), Viscosity_laplacian(r_sq, r)),
                                 Mul(rhoi, rhoj)))
    IN VAdd(fpressure, fviscosity)

\* line 174: the pair is not skipped
PairInRange(hp, i, j) ==
    ~Greater(norm_squared(VSub(hp.positions[i], hp.positions[j])), smoothing_length_sq)

\* lines 184-185: one of the two assertions fails for the pair (i, j)
PairAsserts(hp, i, j) ==
    PairInRange(hp, i, j) /\ ~IsFinite(fpressure_unsmoothed(hp.densities[i], hp.densities[j]))

\* the pair (i, j) comes before the pair stop in the order of the two loops
\* (lines 167 and 171: i ascending, then j ascending)
Before(i, j, stop) == i < stop[1] \/ (i = stop[1] /\ j < stop[2])

\* the first pair at which an assertion fails; a pair behind all others if none does
FirstFailure(hp) ==
    LET n == Len(hp.positions)
        failing == {p \in (1..n) \X (1..n) : p[1] < p[2] /\ PairAsserts(hp, p[1], p[2])}
    IN IF failing = {} THEN <<n + 1, 0>>
       ELSE CHOOSE p \in failing : \A q \in failing : p = q \/ Before(p[1], p[2], q)

\* lines 172-193: ftotal of every pair i < j that the loops reach before stop
PairForces(hp, stop) ==
    [i \in 1..Len(hp.positions) |->
       [j \in 1..Len(hp.positions) |->
          IF i < j /\ Before(i, j, stop) /\ PairInRange(hp, i, j) THEN ftotal(hp, i, j)
          ELSE VZero]]

\* line 210: the force of the boundary particle at rj on the particle at ri
boundary_force(ri, rj) ==
    LET ri_rj == VSub(ri, rj)
        r_sq == norm_squared(ri_rj)
    IN IF Greater(r_sq, smoothing_length_sq) THEN VZero
       ELSE VScale(ri_rj, Div(Mul(boundary_force_factor, Poly6_evaluate(r_sq, Sqrt(r_sq))), r_sq))

\* lines 204-211: the boundary loop of particle i, reached if no assertion
\* failed in the pair loops of the particles up to i
boundary_forces(hp, i, stop) ==
    IF i < stop[1]
    THEN SumVectors([k \in 1..Len(hp.boundary_particles) |->
                       boundary_force(hp.positions[i], hp.boundary_particles[k])])
    ELSE VZero

\* HydroParticles::update_accellerations: every accelleration starts from
\* gravity (lines 159-161); the pair (i, j) adds its ftotal to particle i and
\* subtracts it from particle j (lines 196-197); the pass stops at the first
\* failing assertion and leaves what it has written
update_accellerations(hp) ==
    With(FirstFailure(hp), LAMBDA stop :
    With(PairForces(hp, stop), LAMBDA f :
        LET n == Len(hp.positions)
            added(m) == SumVectors([j \in 1..n |-> f[m][j]])
            subtracted(m) == SumVectors([i \in 1..n |-> f[i][m]])
        IN [store |-> [hp EXCEPT !.accellerations =
                          [m \in 1..Len(@) |->
                             VAdd(VSub(VAdd(gravity, added(m)), subtracted(m)),
                                  boundary_forces(hp, m, stop))]],
            panicked |-> stop[1] <= n]))

-----------------------------------------------------------------------------
(* HydroParticles::physics_step *)

\* a variant of the drift in which the boundary particles fall as well
Drift_movingBoundary(hp, dt) ==
    [hp EXCEPT
       !.positions = [i \in 1..Len(@) |->
                        VAdd(@[i], VAdd(VScale(hp.velocities[i], dt),
                                        VScale(hp.accellerations[i], Mul(Mul(R(1, 2), dt), dt))))],
       !.velocities = [i \in 1..Len(@) |->
                         VAdd(@[i], VScale(hp.accellerations[i], Mul(R(1, 2), dt)))],
       !.boundary_particles = [k \in 1..Len(@) |-> VAdd(@[k], VScale(gravity, dt))]]

\* lines 221-227: drift and first half kick, with the stored accelleration
Drift(hp, dt) ==
    [hp EXCEPT
       !.positions = [i \in 1..Len(@) |->
                        VAdd(@[i], VAdd(VScale(hp.velocities[i], dt),
                                        VScale(hp.accellerations[i], Mul(Mul(R(1, 2), dt), dt))))],
       !.velocities = [i \in 1..Len(@) |->
                         VAdd(@[i], VScale(hp.accellerations[i], Mul(R(1, 2), dt)))]]

\* a variant of the second half kick that applies the whole step
Kick_fullStep(hp, dt) ==
    [hp EXCEPT !.velocities = [i \in 1..Len(@) |-> VAdd(@[i], VScale(hp.accellerations[i], dt))]]

\* lines 233-235: second half kick, with the new accelleration
Kick(hp, dt) ==
    [hp EXCEPT !.velocities = [i \in 1..Len(@) |->
                                 VAdd(@[i], VScale(hp.accellerations[i], Mul(R(1, 2), dt)))]]

physics_step(hp, dt) ==
    IF Len(hp.positions) # Len(hp.velocities) \/ Len(hp.positions) # Len(hp.accellerations)
    THEN [store |-> hp, panicked |-> TRUE]
    ELSE With(HydroParticles_update_densities(Drift(hp, dt)), LAMBDA d :
            IF d.panicked THEN d
            ELSE With(update_accellerations(d.store), LAMBDA a :
                    IF a.panicked THEN a
                    ELSE [store |-> Kick(a.store, dt), panicked |-> FALSE]))

-----------------------------------------------------------------------------
(* The particle store as a state machine: the calls a driver makes *)

Rect(x, y, w, h) == [x |-> x, y |-> y, w |-> w, h |-> h]

\* rectangles and jitter amounts handed to add_fluid_rect: a zero-area one, a
\* row of two, a zero-width one, a row of two whose sides are no multiple of
\* the rest spacing, and a jittered single particle
FluidInputs ==
    { [fluid_rect |-> Rect(0, 0, 0, 0), jitter_amount |-> 0],
      [fluid_rect |-> Rect(0, 0, R(1, 1), R(1, 2)), jitter_amount |-> 0],
      [fluid_rect |-> Rect(0, 0, 0, R(1, 1)), jitter_amount |-> 0],
      [fluid_rect |-> Rect(R(1, 4), R(1, 2), R(5, 4), R(3, 4)), jitter_amount |-> 0],
      [fluid_rect |-> Rect(R(1, 2), R(1, 2), R(1, 2), R(1, 2)), jitter_amount |-> R(1, 2)] }

\* values of Vector::new_random()
RandomVectors == { <<0, 0>>, <<R(1, 2), R(3, 4)>> }

\* end points handed to add_boundary_line: a floor of two particles and a
\* zero-length line at the origin
BoundaryLines ==
    { <<<<0, Neg(R(1, 2))>>, <<R(1, 1), Neg(R(1, 2))>>>>,
      <<<<0, 0>>, <<0, 0>>>> }

\* the time steps handed to physics_step
TimeSteps == { R(1, 10) }

InitStore == InitNS

CurrentStore == Store(positions, velocities, accellerations, densities, boundary_particles)

Becomes(hp) ==
    /\ positions' = hp.positions
    /\ velocities' = hp.velocities
    /\ accellerations' = hp.accellerations
    /\ densities' = hp.densities
    /\ boundary_particles' = hp.boundary_particles

indexvars == <<particles, cells, driver, queryvars>>

\* The driver places a new particle at least a tenth of a metre away from
\* every other one, or exactly onto a boundary particle or a fluid particle
\* that has not moved yet: between two particles that are closer without
\* coinciding, the accellerations exceed the range of Real.
Apart(p, q) == ~VIsFinite(q) \/ distance_squared(p, q) >= Mul(R(1, 10), R(1, 10))

AtRest(i) == velocities[i] = VZero /\ accellerations[i] = VZero

Placeable(new, fixed) ==
    \A p \in Range(new) :
        /\ \A i \in 1..Len(positions) : (p = positions[i] /\ AtRest(i)) \/ Apart(p, positions[i])
        /\ \A q \in Range(fixed) : p = q \/ Apart(p, q)

AddFluidRect ==
    /\ pc = "idle"
    /\ \E in \in FluidInputs, rv \in RandomVectors :
         LET n == num_particles_x(in.fluid_rect) * num_particles_y(in.fluid_rect)
         IN /\ Len(positions) + n <= MaxParticles
            /\ in.jitter_amount = 0 => rv = <<0, 0>>
            /\ Placeable(fluid_rect_positions(in.fluid_rect, in.jitter_amount, [k \in 1..n |-> rv]),
                         boundary_particles)
            /\ Becomes(add_fluid_rect(CurrentStore, in.fluid_rect, in.jitter_amount,
                                      [k \in 1..n |-> rv]))
            /\ lastcall' = [op |-> "add_fluid_rect", n |-> n, arg |-> in]
    /\ UNCHANGED <<pc, num_steps, indexvars, auxvars>>

AddBoundaryLine ==
    /\ pc = "idle"
    /\ \E line \in BoundaryLines :
         LET n == num_shadow_particles(line[1], line[2])
         IN /\ Len(boundary_particles) + n <= MaxBoundary
            /\ Placeable(add_boundary_line(CurrentStore, line[1], line[2]).boundary_particles,
                         <<>>)
            /\ Becomes(add_boundary_line(CurrentStore, line[1], line[2]))
            /\ lastcall' = [op |-> "add_boundary_line", n |-> n, arg |-> line]
    /\ UNCHANGED <<pc, num_steps, indexvars, auxvars>>

PhysicsStep ==
    /\ pc = "idle"
    /\ num_steps < MaxSteps
    /\ \E dt \in TimeSteps :
         LET r == physics_step(CurrentStore, dt)
         IN /\ Becomes(r.store)
            /\ pc' = IF r.panicked THEN "panic" ELSE "idle"
            /\ lastcall' = [op |-> "physics_step", n |-> Len(positions), arg |-> dt]
    /\ num_steps' = num_steps + 1
    /\ UNCHANGED <<indexvars, auxvars>>

NextHydro ==
    \/ AddFluidRect
    \/ AddBoundaryLine
    \/ PhysicsStep

\* HydroParticles under add_fluid_rect, add_boundary_line and physics_step
SpecHydro == InitStore /\ [][NextHydro]_vars

\* the solver's density pass on a FluidParticleWorld
UpdateDensities ==
    /\ pc = "idle"
    /\ num_steps < MaxSteps
    /\ LET r == FluidParticleWorld_update_densities(CurrentStore)
       IN /\ Becomes(r.store)
          /\ pc' = IF r.panicked THEN "panic" ELSE "idle"
    /\ lastcall' = [op |-> "update_densities", n |-> Len(positions), arg |-> 0]
    /\ num_steps' = num_steps + 1
    /\ UNCHANGED <<indexvars, auxvars>>

NextWorld ==
    \/ AddFluidRect
    \/ AddBoundaryLine
    \/ UpdateDensities

\* FluidParticleWorld under add_fluid_rect, add_boundary_line and update_densities
SpecWorld == InitStore /\ [][NextWorld]_vars

-----------------------------------------------------------------------------
(* Claims about the particle store *)

IsPrefix(old, new) == Len(old) <= Len(new) /\ SubSeq(new, 1, Len(old)) = old

\* C7: after every add_fluid_rect, add_boundary_line and physics_step the
\* four per-particle vectors have the same length; no call shortens them, the
\* two add calls leave the entries that existed where they were, and
\* physics_step keeps the number of particles.
C7_EqualLengthsAppendOnly ==
    [][/\ Len(velocities') = Len(positions')
       /\ Len(accellerations') = Len(positions')
       /\ Len(densities') = Len(positions')
       /\ Len(positions') >= Len(positions)
       /\ lastcall'.op \in {"add_fluid_rect", "add_boundary_line"} =>
             /\ IsPrefix(positions, positions')
             /\ IsPrefix(velocities, velocities')
             /\ IsPrefix(accellerations, accellerations')
             /\ IsPrefix(densities, densities')
       /\ lastcall'.op = "physics_step" => Len(positions') = Len(positions)]_vars

\* particles were appended to a store that has already been stepped
C7_Witness ==
    /\ lastcall.op = "add_fluid_rect"
    /\ num_steps > 0
    /\ Len(positions) > lastcall.n
    /\ Len(densities) = Len(positions)
    /\ \E i \in 1..Len(positions) : velocities[i] # VZero

\* the density the claim describes for particle i: the self term once, one
\* term per other fluid particle and per boundary particle within the
\* smoothing length
ExpectedDensity(i) ==
    Add(Add(self_contribution,
            SumReals([j \in 1..Len(positions) |->
                        IF j = i THEN 0 ELSE density_contribution(positions[i], positions[j])])),
        SumReals([k \in 1..Len(boundary_particles) |->
                    density_contribution(positions[i], boundary_particles[k])]))

\* C8: after update_densities every density is the self term
\* mass * density_kernel(0,0), exactly once, plus one term per other fluid
\* particle and per boundary particle within the smoothing length; with one
\* fluid particle and no boundary particle it is exactly the self term.
C8_SelfTermOnce ==
    (lastcall.op = "update_densities" /\ pc = "idle") =>
        \A i \in 1..Len(positions) : densities[i] = ExpectedDensity(i)

\* the boundary-force terms of particle i, as line 210 computes them
BoundaryForces(i) ==
    LET terms == [k \in 1..Len(boundary_particles) |->
                    boundary_force(positions[i], boundary_particles[k])]
    IN <<SumReals([k \in 1..Len(terms) |-> terms[k][1]]),
         SumReals([k \in 1..Len(terms) |-> terms[k][2]])>>

\* accelleration minus gravity minus boundary-force terms, summed over all particles
NetPairAccelleration ==
    LET rest == [i \in 1..Len(positions) |->
                   VSub(VSub(accellerations[i], gravity), BoundaryForces(i))]
    IN <<SumReals([i \in 1..Len(rest) |-> rest[i][1]]),
         SumReals([i \in 1..Len(rest) |-> rest[i][2]])>>

\* C9: after a force pass the pressure and viscosity contributions cancel:
\* the sum over all particles of accelleration minus gravity minus
\* boundary-force terms is exactly the zero vector, for any configuration.
C9_PairForcesCancel ==
    (lastcall.op = "physics_step" /\ pc = "idle") => NetPairAccelleration = VZero

\* the store of the leapfrog scenario: one fluid particle at rest at the
\* origin, as add_fluid_rect creates it, and no boundary particle
OneParticleAtRest ==
    /\ positions = <<<<0, 0>>>>
    /\ velocities = <<VZero>>
    /\ accellerations = <<VZero>>
    /\ boundary_particles = <<>>

\* physics_step(0.1) is the step being taken
StepOfATenth == lastcall'.op = "physics_step" /\ lastcall'.arg = R(1, 10) /\ num_steps' = num_steps + 1

\* C10 as stated: the step leaves velocity (0, -0.981) and position (0, -0.04905)
C10_ProjectileMotion ==
    [][(OneParticleAtRest /\ StepOfATenth) =>
          /\ velocities' = <<<<0, 0 - 981000>>>>
          /\ positions' = <<<<0, 0 - 49050>>>>]_vars

\* C10, amended: the step leaves the particle at the origin, because the
\* drift uses the stored accelleration, which is zero; the accelleration
\* becomes (0, -9.81) * 0.01 and only the second half kick applies it, so
\* the velocity is (0, 0.5 * 0.1 * -0.0981) = (0, -0.004905).
C10_FirstStepHalfKick ==
    [][(OneParticleAtRest /\ StepOfATenth) =>
          /\ positions' = <<<<0, 0>>>>
          /\ accellerations' = <<<<0, 0 - 98100>>>>
          /\ velocities' = <<<<0, 0 - 4905>>>>
          /\ pc' = "idle"]_vars

\* the scenario has been stepped once
C10_Witness ==
    /\ lastcall.op = "physics_step"
    /\ lastcall.arg = R(1, 10)
    /\ num_steps = 1
    /\ boundary_particles = <<>>
    /\ positions = <<<<0, 0>>>>
    /\ velocities = <<<<0, 0 - 4905>>>>

\* C11: a force pass that would produce a non-finite accelleration component
\* aborts physics_step: after a step that returned, every accelleration and
\* every velocity is finite.
C11_NonFiniteAborts ==
    (lastcall.op = "physics_step" /\ pc = "idle") =>
        \A i \in 1..Len(positions) :
            VIsFinite(accellerations[i]) /\ VIsFinite(velocities[i])

\* floor(len * sqrt(rest particle density)), found by search
FloorTimesRootDensity(len) ==
    CHOOSE k \in 0..(MaxParticles + 1) :
        /\ k * One <= Mul(len, Sqrt(particle_density))
        /\ Mul(len, Sqrt(particle_density)) < (k + 1) * One

AtLeastOne(k) == IF k < 1 THEN 1 ELSE k

\* the number of particles the rectangle of the call is to receive
ExpectedParticles(fluid_rect) ==
    AtLeastOne(FloorTimesRootDensity(fluid_rect.w)) * AtLeastOne(FloorTimesRootDensity(fluid_rect.h))

RestSpacing == Div(One, Sqrt(particle_density))

\* C13: add_fluid_rect with jitter 0 places the particle with lattice
\* coordinates (x, y) exactly at bottom_left + spacing * (x, y), where
\* spacing = 1/sqrt(rest particle density), for every rectangle size.
C13_OnRestLattice ==
    [][(lastcall'.op = "add_fluid_rect" /\ lastcall'.arg.jitter_amount = 0) =>
          LET rect == lastcall'.arg.fluid_rect
              nx == AtLeastOne(FloorTimesRootDensity(rect.w))
              old == Len(positions)
          IN \A k \in 1..(Len(positions') - old) :
                positions'[old + k] =
                    <<Add(rect.x, Mul(RestSpacing, ((k - 1) % nx) * One)),
                      Add(rect.y, Mul(RestSpacing, ((k - 1) \div nx) * One))>>]_vars

\* C14: add_boundary_line(start, end) appends exactly
\* n = max(1, floor(length * sqrt(rho))) boundary particles, the k-th of them
\* (k = 0..n-1) at start + k * (end - start) / n, after the ones there were; a
\* zero-length line appends exactly one particle, at start, and does not fail.
C14_BoundaryLineEvenlySpaced ==
    [][lastcall'.op = "add_boundary_line" =>
          LET start == lastcall'.arg[1]
              end == lastcall'.arg[2]
              n == AtLeastOne(FloorTimesRootDensity(distance(start, end)))
          IN /\ boundary_particles' =
                   boundary_particles \o
                   [k \in 1..n |->
                      VAdd(start, VDiv(VScale(VSub(end, start), (k - 1) * One), n * One))]
             /\ (start = end => n = 1)
             /\ pc' = "idle"]_vars

\* the floor line has been added after a step: two particles, the first at start
C14_Witness ==
    /\ lastcall.op = "add_boundary_line"
    /\ lastcall.arg = <<<<0, Neg(R(1, 2))>>, <<R(1, 1), Neg(R(1, 2))>>>>
    /\ num_steps > 0
    /\ boundary_particles = <<<<0, Neg(R(1, 2))>>, <<R(1, 2), Neg(R(1, 2))>>>>

\* C15: boundary particles never move and are never targets:
\* boundary_particles changes only in add_boundary_line, which only appends;
\* physics_step, the passes it runs, update_densities and add_fluid_rect leave
\* it unchanged; and add_boundary_line leaves positions, velocities,
\* accellerations and densities as they are.
C15_BoundaryFixedNeverTarget ==
    [][/\ IsPrefix(boundary_particles, boundary_particles')
       /\ (lastcall'.op \in {"physics_step", "update_densities", "add_fluid_rect"} =>
              boundary_particles' = boundary_particles)
       /\ (boundary_particles' # boundary_particles => lastcall'.op = "add_boundary_line")
       /\ (lastcall'.op = "add_boundary_line" =>
              /\ positions' = positions
              /\ velocities' = velocities
              /\ accellerations' = accellerations
              /\ densities' = densities)]_vars

\* a step has returned in which the floor acted on the only fluid particle:
\* its accelleration is finite and differs from gravity, and the floor is where it was
C15_Witness ==
    /\ lastcall.op = "physics_step"
    /\ pc = "idle"
    /\ boundary_particles = <<<<0, Neg(R(1, 2))>>, <<R(1, 2), Neg(R(1, 2))>>>>
    /\ Len(positions) = 1
    /\ VIsFinite(accellerations[1])
    /\ accellerations[1] # gravity

-----------------------------------------------------------------------------
(* camera.rs: the 2D camera that maps world coordinates to screen coordinates *)

Camera(screen, pixel_per_world_unit, position) ==
    [screen |-> screen, pixel_per_world_unit |-> pixel_per_world_unit, position |-> position]

\* Camera::center_around_world_rect
center_around_world_rect(screen, world_rect_to_fit) ==
    LET screen_extent == <<screen.w, Abs(screen.h)>>
        world_extent == <<world_rect_to_fit.w, world_rect_to_fit.h>>
        pixel_per_world_unit2d == <<Div(screen_extent[1], world_extent[1]),
                                    Div(screen_extent[2], world_extent[2])>>
        world_rect_center == <<Add(world_rect_to_fit.x, Mul(world_rect_to_fit.w, R(1, 2))),
                               Add(world_rect_to_fit.y, Mul(world_rect_to_fit.h, R(1, 2)))>>
    IN Camera(screen, Min(pixel_per_world_unit2d[1], pixel_per_world_unit2d[2]), world_rect_center)

\* the value of a call: returned with a value, or panicked
Returned(value) == [returned |-> TRUE, panicked |-> FALSE, value |-> value]
Panicked == [returned |-> FALSE, panicked |-> TRUE, value |-> <<0, 0>>]

\* a variant that does not flip the y axis
world_to_screen_coords_yUp(cam, pos) ==
    LET from_camera == VSub(pos, cam.position)
        view_scale == VScale(from_camera, cam.pixel_per_world_unit)
    IN IF ~(Greater(cam.screen.w, 0) /\ Greater(cam.screen.h, 0)) THEN Panicked
       ELSE Returned(<<Add(Add(cam.screen.x, view_scale[1]), Mul(cam.screen.w, R(1, 2))),
                       Add(Add(cam.screen.y, view_scale[2]), Mul(cam.screen.h, R(1, 2)))>>)

\* Camera::world_to_screen_coords
world_to_screen_coords(cam, pos) ==
    LET from_camera == VSub(pos, cam.position)
        view_scale == VScale(from_camera, cam.pixel_per_world_unit)
    IN IF ~(Greater(cam.screen.w, 0) /\ Greater(cam.screen.h, 0)) THEN Panicked
       ELSE Returned(<<Add(Add(cam.screen.x, view_scale[1]), Mul(cam.screen.w, R(1, 2))),
                       Add(Sub(cam.screen.y, view_scale[2]), Mul(cam.screen.h, R(1, 2)))>>)

\* screen rectangles: those of the tests, and one whose height is negative
Screens ==
    { Rect(0, 0, R(200, 1), R(100, 1)),
      Rect(R(1, 1), R(2, 1), R(200, 1), R(100, 1)),
      Rect(R(321, 1), R(123, 1), R(200, 1), R(100, 1)),
      Rect(0, R(100, 1), R(200, 1), Neg(R(100, 1))) }

\* world rectangles handed to center_around_world_rect
WorldRects == { Rect(R(10, 1), R(10, 1), R(20, 1), R(40, 1)),
                Rect(Neg(R(1, 10)), Neg(R(1, 10)), R(17, 10), R(16, 10)) }

\* the world positions converted: those of the tests, and the camera position
\* shifted by an offset
WorldPositions(cam) ==
    { <<0, 0>>, <<R(1, 1), R(1, 1)>>, <<Neg(R(1, 1)), Neg(R(1, 1))>> }
    \cup { VAdd(cam.position, <<dx, dy>>) : dx \in {0, R(1, 1), Neg(R(1, 1)), R(1, 4)},
                                            dy \in {0, R(1, 1), Neg(R(1, 1)), Neg(R(5, 2))} }

NotConverted == [returned |-> FALSE, panicked |-> FALSE, value |-> <<0, 0>>]

\* a camera built field by field, as the tests do
NewCamera ==
    /\ \E screen \in Screens,
          zoom \in { R(10, 1), R(5, 2), R(1, 2) },
          position \in { <<0, 0>>, <<R(1, 1), R(1, 1)>>, <<Neg(R(3, 2)), R(20, 1)>> } :
         camera' = Camera(screen, zoom, position)
    /\ screen_pos' = NotConverted
    /\ UNCHANGED <<world_pos, findvars, workers, positions, particles, cells, pc, lastcall,
                   driver, queryvars, storevars>>

\* a camera built by center_around_world_rect, as main.rs does
CenterAroundWorldRect ==
    /\ \E screen \in Screens, world_rect_to_fit \in WorldRects :
         camera' = center_around_world_rect(screen, world_rect_to_fit)
    /\ screen_pos' = NotConverted
    /\ UNCHANGED <<world_pos, findvars, workers, positions, particles, cells, pc, lastcall,
                   driver, queryvars, storevars>>

\* a call of world_to_screen_coords
WorldToScreenCoords ==
    /\ camera.pixel_per_world_unit # 0
    /\ \E pos \in WorldPositions(camera) :
         /\ world_pos' = pos
         /\ screen_pos' = world_to_screen_coords(camera, pos)
    /\ UNCHANGED <<camera, findvars, workers, positions, particles, cells, pc, lastcall,
                   driver, queryvars, storevars>>

NextCamera ==
    \/ NewCamera
    \/ CenterAroundWorldRect
    \/ WorldToScreenCoords

\* cameras and the conversions asked of them
SpecCamera == InitNS /\ [][NextCamera]_vars

-----------------------------------------------------------------------------
(* Claims about the camera *)

\* the centre of the camera's screen rectangle
ScreenCentre ==
    <<Add(camera.screen.x, Div(camera.screen.w, R(2, 1))),
      Add(camera.screen.y, Div(camera.screen.h, R(2, 1)))>>

\* C16: world_to_screen_coords maps the camera's own position to the centre
\* of the screen rectangle, and a world point offset by (dx, dy) from the
\* camera position to the centre plus (dx * pixel_per_world_unit,
\* -dy * pixel_per_world_unit).
C16_WorldToScreen ==
    screen_pos.returned =>
        LET dx == Sub(world_pos[1], camera.position[1])
            dy == Sub(world_pos[2], camera.position[2])
        IN /\ screen_pos.value =
                 VAdd(ScreenCentre, <<Mul(dx, camera.pixel_per_world_unit),
                                      Neg(Mul(dy, camera.pixel_per_world_unit))>>)
           /\ (world_pos = camera.position => screen_pos.value = ScreenCentre)

\* the second camera of the test has converted the origin to (90, 60)
C16_Witness ==
    /\ camera = Camera(Rect(0, 0, R(200, 1), R(100, 1)), R(10, 1), <<R(1, 1), R(1, 1)>>)
    /\ world_pos = <<0, 0>>
    /\ screen_pos = Returned(<<R(90, 1), R(60, 1)>>)

-----------------------------------------------------------------------------
(* find_next_cell on cell tables of its own: any strictly increasing table *)

\* the table of n cells whose codes grow by gap, and by one more every fourth cell
CellTable(n, gap) ==
    [k \in 1..n |-> [first_particle |-> 2 * (k - 1), cidx |-> (k - 1) * gap + ((k - 1) \div 4) + 1]]

\* the codes searched for in a table: from below its first code to above its last
TargetCodes(cs) == 0..((IF cs = <<>> THEN 0 ELSE cs[Len(cs)].cidx) + 1)

InitFind ==
    /\ StoreIdle /\ CameraIdle /\ workers = <<>>
    /\ table \in { CellTable(n, gap) : n \in 0..MaxCells, gap \in 1..3 }
    /\ target = 0
    /\ found = [returned |-> FALSE, index |-> 0]

\* a call of find_next_cell(&table, cidx)
FindNextCell ==
    /\ \E cidx \in TargetCodes(table) :
         /\ target' = cidx
         /\ found' = [returned |-> TRUE, index |-> find_next_cell(table, cidx)]
    /\ UNCHANGED <<table, cameravars, workers, positions, particles, cells, pc, lastcall,
                   driver, queryvars, storevars>>

\* find_next_cell over tables shorter and longer than the linear-scan threshold
SpecFind == InitFind /\ [][FindNextCell]_vars

-----------------------------------------------------------------------------
(* Claims about find_next_cell *)

\* the indices (0-based) of the entries whose code is not below the target
NotBelow == { i \in 0..(Len(table) - 1) : table[i + 1].cidx >= target }

\* C17: for every table with strictly increasing codes, of any length, and
\* every target code, find_next_cell returns the index of the first entry
\* whose code is >= the target, or the table length if there is none, and it
\* never reads an index outside the table.
C17_FirstNotBelow ==
    found.returned =>
        /\ found.index # OutOfBounds
        /\ found.index = (IF NotBelow = {} THEN Len(table) ELSE SetMin(NotBelow))

\* a search in a table longer than twice the threshold, whose two halvings
\* went down and then up, has returned an index found by the linear scan
C17_Witness ==
    /\ found.returned
    /\ Len(table) > 2 * LINEAR_SEARCH_THRESHHOLD
    /\ table[Len(table) \div 2 + 1].cidx > target
    /\ table[Len(table) \div 4 + 1].cidx < target
    /\ found.index > Len(table) \div 4
    /\ table[found.index + 1].cidx > target

-----------------------------------------------------------------------------
(* FluidParticleWorld::update_densities as the parallel pass it is: one    *)
(* worker per pair (density, ri) of densities.par_iter_mut().zip(positions) *)

\* line 133: the worker of particle i stores the self-contribution
worker_self_step(d, i) == [d EXCEPT ![i] = self_contribution]

\* a variant that adds the contribution to both particles of the pair, as
\* the sequential pass of HydroParticles does
worker_fluid_step_symmetric(d, i, j) ==
    [d EXCEPT ![i] = Add(@, density_contribution(positions[i], positions[j])),
              ![j] = Add(@, density_contribution(positions[i], positions[j]))]

\* lines 134-141: one iteration of the loop over positions
worker_fluid_step(d, i, j) ==
    [d EXCEPT ![i] = Add(@, density_contribution(positions[i], positions[j]))]

\* lines 142-149: one iteration of the loop over boundary_particles
worker_boundary_step(d, i, k) ==
    [d EXCEPT ![i] = Add(@, density_contribution(positions[i], boundary_particles[k]))]

\* where a worker stands once it has finished iteration j of the loop over positions
AfterFluid(j) ==
    IF j < Len(positions) THEN [pc |-> "fluid", j |-> j + 1]
    ELSE IF boundary_particles # <<>> THEN [pc |-> "boundary", j |-> 1]
    ELSE [pc |-> "done", j |-> 0]

\* where a worker stands once it has finished iteration k of the loop over boundary_particles
AfterBoundary(k) ==
    IF k < Len(boundary_particles) THEN [pc |-> "boundary", j |-> k + 1]
    ELSE [pc |-> "done", j |-> 0]

passframe == <<positions, velocities, accellerations, boundary_particles, num_steps, lastcall,
               indexvars, cameravars, findvars>>

\* lines 122-132: the assertion, then the workers are handed out
StartPass ==
    /\ pc = "idle"
    /\ num_steps < MaxPasses
    /\ Len(positions) <= MaxWorkers
    /\ IF Len(positions) # Len(densities)
       THEN pc' = "panic" /\ UNCHANGED workers
       ELSE /\ pc' = "update_densities"
            /\ workers' = [i \in 1..Len(densities) |-> [pc |-> "self", j |-> 1]]
    /\ UNCHANGED <<densities, passframe>>

WorkerSelf(i) ==
    /\ pc = "update_densities"
    /\ workers[i].pc = "self"
    /\ densities' = worker_self_step(densities, i)
    /\ workers' = [workers EXCEPT ![i] = [pc |-> "fluid", j |-> 1]]
    /\ UNCHANGED <<pc, passframe>>

WorkerFluid(i) ==
    /\ pc = "update_densities"
    /\ workers[i].pc = "fluid"
    /\ densities' = worker_fluid_step(densities, i, workers[i].j)
    /\ workers' = [workers EXCEPT ![i] = AfterFluid(workers[i].j)]
    /\ UNCHANGED <<pc, passframe>>

WorkerBoundary(i) ==
    /\ pc = "update_densities"
    /\ workers[i].pc = "boundary"
    /\ densities' = worker_boundary_step(densities, i, workers[i].j)
    /\ workers' = [workers EXCEPT ![i] = AfterBoundary(workers[i].j)]
    /\ UNCHANGED <<pc, passframe>>

\* line 150: for_each returns when every worker has finished
JoinPass ==
    /\ pc = "update_densities"
    /\ \A i \in 1..Len(workers) : workers[i].pc = "done"
    /\ pc' = "idle"
    /\ workers' = <<>>
    /\ lastcall' = [op |-> "update_densities", n |-> Len(positions), arg |-> 0]
    /\ num_steps' = num_steps + 1
    /\ UNCHANGED <<positions, velocities, accellerations, densities, boundary_particles,
                   indexvars, cameravars, findvars>>

NextParallel ==
    \/ AddFluidRect
    \/ AddBoundaryLine
    \/ StartPass
    \/ \E i \in 1..Len(workers) : WorkerSelf(i)
    \/ \E i \in 1..Len(workers) : WorkerFluid(i)
    \/ \E i \in 1..Len(workers) : WorkerBoundary(i)
    \/ JoinPass

\* FluidParticleWorld with the density pass run by interleaved workers
SpecParallel == InitStore /\ [][NextParallel]_vars

-----------------------------------------------------------------------------
(* Claims about the parallel density pass *)

\* the densities the pass computes when its workers run one after the other
SequentialDensities(p, d, b) ==
    FluidParticleWorld_update_densities(Store(p, <<>>, <<>>, d, b)).store.densities

\* C18: in the parallel density pass the worker of particle i writes only
\* densities[i] and leaves positions and boundary_particles as they are, so
\* no two workers write the same slot, and whatever the interleaving of the
\* workers the densities at the end are those of the sequential pass.
C18_WorkersWriteOwnSlot ==
    [][(pc = "update_densities") =>
          /\ positions' = positions
          /\ boundary_particles' = boundary_particles
          /\ \A k \in 1..Len(densities) :
                densities'[k] # densities[k] =>
                    /\ workers[k].pc # "done"
                    /\ workers' = [workers EXCEPT ![k] = workers'[k]]
          /\ (pc' = "idle" =>
                densities' = SequentialDensities(positions, densities, boundary_particles))]_vars

\* a pass over two particles and a boundary is under way, its workers
\* interleaved: the second has finished, with the density of the sequential
\* pass, while the first is still in its loop over positions
C18_Witness ==
    /\ pc = "update_densities"
    /\ Len(workers) = 2
    /\ boundary_particles # <<>>
    /\ workers[1].pc = "fluid" /\ workers[1].j = 2
    /\ workers[2].pc = "done"
    /\ densities[2] = SequentialDensities(positions, densities, boundary_particles)[2]
    /\ densities[1] # SequentialDensities(positions, densities, boundary_particles)[1]

====
